---- MODULE Spec2Model ----
(***************************************************************************)
(* Model of the face-selection engine and multi-solid STL exporter of      *)
(* stller.py (interactive viewer) and split_stl.py (rule based splitter).  *)
(*                                                                         *)
(* Face ids, group indices and vertex ids are 0-based as in the source;    *)
(* TLA+ sequences are 1-based, so element i of a Python list is s[i+1].    *)
(***************************************************************************)
EXTENDS Integers, Sequences, FiniteSets, TLC

VARIABLES
    shown,                \* FALSE until display_stl has run its initialisation
    selection_groups,     \* list of sets of face ids
    current_group,        \* index of the active group
    selection_mode,       \* TRUE: picks select, FALSE: movement mode
    region_growing_mode,  \* TRUE: a pick grows a region
    angle_tolerance,      \* degrees, set by the slider
    last,                 \* the handler that ran last: [op, arg, err]
    pre,                  \* selection state before that handler: [g, c]
    run,                  \* number of consecutive runs of that same handler call
    start,                \* selection state before the first call of the run
    out,                  \* result of the last export: [ok, opened, solids]
    rg,                   \* the region growing loop, see SpecRG
    split                 \* a run of split_stl.py's selection rules, see SpecSplit

vars == <<shown, selection_groups, current_group, selection_mode,
          region_growing_mode, angle_tolerance, last, pre, run, start, out, rg,
          split>>

(***************************************************************************)
(* Bounds of the model.                                                    *)
(***************************************************************************)
MaxGroups == 2

(***************************************************************************)
(* Meshes.  A mesh is [n_cells, point_ids, cell_normals]: point_ids[c+1]   *)
(* is the triple of vertex ids of cell c, cell_normals[c+1] its normal as  *)
(* computed by compute_normals.  Normals are axis-aligned unit vectors, or *)
(* the zero vector for a zero-area cell, so that every dot product, and    *)
(* the float arithmetic on it, is exact.                                   *)
(***************************************************************************)
ZP == <<0, 0, 1>>
ZM == <<0, 0, -1>>
XP == <<1, 0, 0>>
ZeroVec == <<0, 0, 0>>

\* The mesh loaded by the viewer: a top triangle 0 and a side triangle 1 at
\* 90 degrees to it, touching it in one vertex only.  points[p+1] are the
\* coordinates of point p.
ViewMesh ==
    [n_cells |-> 2,
     point_ids |-> << <<0, 1, 2>>, <<2, 3, 4>> >>,
     cell_normals |-> <<ZP, XP>>,
     points |-> << <<0, 0, 25>>, <<25, 0, 25>>, <<0, 25, 25>>,
                   <<0, 25, -120>>, <<0, 150, 25>> >>]

Cells(mesh) == 0 .. (mesh.n_cells - 1)

PointIdsOf(mesh, c) == {mesh.point_ids[c + 1][k] : k \in 1..3}

\* np.dot on two 3-vectors
Dot(a, b) == a[1] * b[1] + a[2] * b[2] + a[3] * b[3]

\* np.clip(d, -1.0, 1.0)
Clip(d) == IF d < -1 THEN -1 ELSE IF d > 1 THEN 1 ELSE d

\* np.degrees(np.arccos(d)) on the exact values a clipped dot product of
\* axis-aligned or zero normals takes
ArccosDeg(d) == CASE d = 1 -> 0 [] d = 0 -> 90 [] d = -1 -> 180

AngleToSeed(mesh, seed_normal, c) ==
    ArccosDeg(Clip(Dot(seed_normal, mesh.cell_normals[c + 1])))

(***************************************************************************)
(* select_faces_by_region_growing                                          *)
(***************************************************************************)
\* point_to_cells: for each point, the cells it is part of
point_to_cells(mesh) ==
    [p \in UNION {PointIdsOf(mesh, c) : c \in Cells(mesh)} |->
        {c \in Cells(mesh) : p \in PointIdsOf(mesh, c)}]

\* cell_neighbors listing only the sharing cells of a larger id
cell_neighbors_forward(mesh) ==
    [c \in Cells(mesh) |->
        {n \in UNION {point_to_cells(mesh)[p] : p \in PointIdsOf(mesh, c)} : n > c}]

\* cell_neighbors asking for two shared points, an edge, instead of one
cell_neighbors_edge(mesh) ==
    [c \in Cells(mesh) |->
        {n \in Cells(mesh) \ {c} :
            Cardinality(PointIdsOf(mesh, n) \cap PointIdsOf(mesh, c)) >= 2}]

\* cell_neighbors: for each cell, the other cells sharing a point with it
cell_neighbors(mesh) ==
    [c \in Cells(mesh) |->
        UNION {point_to_cells(mesh)[p] : p \in PointIdsOf(mesh, c)} \ {c}]

\* RGCandidate with "angle < angle_tolerance" for "<="
RGCandidate_strict(mesh, seed, tol, cands, st, c) ==
    IF c \in st.sel THEN st
    ELSE IF AngleToSeed(mesh, mesh.cell_normals[seed + 1], c) < tol
         THEN [sel |-> st.sel \cup {c},
               new |-> st.new \cup
                   {n \in cell_neighbors(mesh)[c] :
                        n \notin (st.sel \cup {c}) /\ n \notin cands}]
         ELSE st

\* RGCandidate with the comparison reversed, "angle >= angle_tolerance"
RGCandidate_reversed(mesh, seed, tol, cands, st, c) ==
    IF c \in st.sel THEN st
    ELSE IF AngleToSeed(mesh, mesh.cell_normals[seed + 1], c) >= tol
         THEN [sel |-> st.sel \cup {c},
               new |-> st.new \cup
                   {n \in cell_neighbors(mesh)[c] :
                        n \notin (st.sel \cup {c}) /\ n \notin cands}]
         ELSE st

\* RGCandidate queueing the neighbours of a candidate it rejects as well
RGCandidate_expand_rejected(mesh, seed, tol, cands, st, c) ==
    IF c \in st.sel THEN st
    ELSE [sel |-> IF AngleToSeed(mesh, mesh.cell_normals[seed + 1], c) <= tol
                  THEN st.sel \cup {c} ELSE st.sel,
          new |-> st.new \cup
              {n \in cell_neighbors(mesh)[c] :
                   n \notin (st.sel \cup {c}) /\ n \notin cands}]

\* The body of "for candidate_id in candidates" for one candidate: st is
\* [sel, new], the selected faces and the new candidates so far.
RGCandidate(mesh, seed, tol, cands, st, c) ==
    IF c \in st.sel THEN st
    ELSE IF AngleToSeed(mesh, mesh.cell_normals[seed + 1], c) <= tol
         THEN [sel |-> st.sel \cup {c},
               new |-> st.new \cup
                   {n \in cell_neighbors(mesh)[c] :
                        n \notin (st.sel \cup {c}) /\ n \notin cands}]
         ELSE st

\* The for loop over the candidates still to visit (set iteration order is
\* arbitrary in Python; the loop is taken in the order CHOOSE gives.  The
\* order does not change the outcome: candidates is fixed during the pass,
\* the angle test reads only the seed's normal, and a face selected during
\* the pass is itself a candidate, so "not in selected_faces and not in
\* candidates" filters the same neighbours whenever it is evaluated).
RECURSIVE RGFor(_, _, _, _, _, _)
RGFor(mesh, seed, tol, cands, todo, st) ==
    IF todo = {} THEN st
    ELSE LET c == CHOOSE x \in todo : TRUE
         IN RGFor(mesh, seed, tol, cands, todo \ {c},
                  RGCandidate(mesh, seed, tol, cands, st, c))

\* One iteration of "while candidates": [sel, new] afterwards
RGIteration(mesh, seed, tol, sel, cands) ==
    RGFor(mesh, seed, tol, cands, cands, [sel |-> sel, new |-> {}])

RECURSIVE RGWhile(_, _, _, _, _)
RGWhile(mesh, seed, tol, sel, cands) ==
    IF cands = {} THEN sel
    ELSE LET st == RGIteration(mesh, seed, tol, sel, cands)
         IN RGWhile(mesh, seed, tol, st.sel, st.new)

\* The exception the function raises for a seed, "none" if it returns:
\* face_normals[seed] is an IndexError beyond the array, and a negative
\* seed in range of numpy's wrap-around is a KeyError of cell_neighbors.
RGError(mesh, seed) ==
    IF seed >= mesh.n_cells \/ seed < -mesh.n_cells THEN "IndexError"
    ELSE IF seed < 0 THEN "KeyError"
    ELSE "none"

select_faces_by_region_growing(mesh, seed, tol) ==
    RGWhile(mesh, seed, tol, {seed}, cell_neighbors(mesh)[seed])

(***************************************************************************)
(* The viewer's handlers, as functions of the selection state.  Each       *)
(* yields [g, c, err]: the groups, the active index and the exception      *)
(* that escapes the handler ("none" if it returns).                        *)
(***************************************************************************)
\* update_selection_display: mask[list(group)] = True raises for an id
\* beyond the mesh's cells
DisplayError(mesh, g) ==
    IF \E i \in 1..Len(g) : \E f \in g[i] : f >= mesh.n_cells
    THEN "IndexError" ELSE "none"

\* create_new_group without the test for an empty active group
create_new_group_always(mesh, g, c) ==
    LET g2 == Append(g, {})
    IN [g |-> g2, c |-> Len(g2) - 1, err |-> DisplayError(mesh, g2)]

create_new_group(mesh, g, c) ==
    IF Len(g) = 0 \/ g[c + 1] # {}
    THEN LET g2 == Append(g, {})
         IN [g |-> g2, c |-> Len(g2) - 1, err |-> DisplayError(mesh, g2)]
    ELSE [g |-> g, c |-> c, err |-> "none"]

\* next_group without the modulo
next_group_nomod(g, c) ==
    IF Len(g) > 0
    THEN [g |-> g, c |-> c + 1, err |-> "none"]
    ELSE [g |-> g, c |-> c, err |-> "none"]

\* next_group stopping at the last group instead of wrapping around
next_group_nowrap(g, c) ==
    IF Len(g) > 0
    THEN [g |-> g, c |-> IF c + 1 < Len(g) THEN c + 1 ELSE c, err |-> "none"]
    ELSE [g |-> g, c |-> c, err |-> "none"]

next_group(g, c) ==
    IF Len(g) > 0
    THEN [g |-> g, c |-> (c + 1) % Len(g), err |-> "none"]
    ELSE [g |-> g, c |-> c, err |-> "none"]

\* clear_selection emptying every group instead of the current one
clear_selection_all(mesh, g, c) ==
    LET g2 == [i \in 1..Len(g) |-> {}]
    IN [g |-> g2, c |-> c, err |-> DisplayError(mesh, g2)]

\* clear_selection deleting the current group from the list
clear_selection_delete(mesh, g, c) ==
    LET g2 == IF Len(g) > c
              THEN SubSeq(g, 1, c) \o SubSeq(g, c + 2, Len(g))
              ELSE g
    IN [g |-> g2,
        c |-> IF c < Len(g2) THEN c ELSE IF Len(g2) = 0 THEN 0 ELSE Len(g2) - 1,
        err |-> DisplayError(mesh, g2)]

clear_selection(mesh, g, c) ==
    LET g2 == IF Len(g) > c THEN [g EXCEPT ![c + 1] = {}] ELSE g
    IN [g |-> g2, c |-> c, err |-> DisplayError(mesh, g2)]

\* "Make sure we have at least one selection group"
EnsureGroup(g, c) ==
    IF Len(g) = 0 THEN [g |-> <<{}>>, c |-> 0] ELSE [g |-> g, c |-> c]

\* PickRegion toggling each grown face instead of adding it
PickRegion_toggle(mesh, g, c, tol, cell_id) ==
    IF RGError(mesh, cell_id) # "none"
    THEN [g |-> g, c |-> c, err |-> RGError(mesh, cell_id)]
    ELSE LET new_selection == select_faces_by_region_growing(mesh, cell_id, tol)
             g2 == [g EXCEPT ![c + 1] = (@ \ new_selection) \cup (new_selection \ @)]
         IN [g |-> g2, c |-> c, err |-> DisplayError(mesh, g2)]

\* the region growing branch of cell_picked
PickRegion(mesh, g, c, tol, cell_id) ==
    IF RGError(mesh, cell_id) # "none"
    THEN [g |-> g, c |-> c, err |-> RGError(mesh, cell_id)]
    ELSE LET new_selection == select_faces_by_region_growing(mesh, cell_id, tol)
             g2 == [g EXCEPT ![c + 1] = @ \cup new_selection]
         IN [g |-> g2, c |-> c, err |-> DisplayError(mesh, g2)]

\* PickSingle that only ever adds the face
PickSingle_addonly(mesh, g, c, cell_id) ==
    LET g2 == [g EXCEPT ![c + 1] = @ \cup {cell_id}]
    IN [g |-> g2, c |-> c, err |-> DisplayError(mesh, g2)]

\* PickSingle that keeps a face in one group only: adding it to the active
\* group takes it out of every other group
PickSingle_exclusive(mesh, g, c, cell_id) ==
    LET g2 == IF cell_id \in g[c + 1]
              THEN [g EXCEPT ![c + 1] = @ \ {cell_id}]
              ELSE [i \in 1..Len(g) |->
                       IF i = c + 1 THEN g[i] \cup {cell_id} ELSE g[i] \ {cell_id}]
    IN [g |-> g2, c |-> c, err |-> DisplayError(mesh, g2)]

\* the single face branch of cell_picked
PickSingle(mesh, g, c, cell_id) ==
    LET g2 == IF cell_id \in g[c + 1]
              THEN [g EXCEPT ![c + 1] = @ \ {cell_id}]
              ELSE [g EXCEPT ![c + 1] = @ \cup {cell_id}]
    IN [g |-> g2, c |-> c, err |-> DisplayError(mesh, g2)]

\* cell_picked without the "if not selection_mode: return"
cell_picked_any_mode(mesh, g, c, sel_mode, rg_mode, tol, is_mesh, cell_id) ==
    IF is_mesh THEN [g |-> g, c |-> c, err |-> "none"]
    ELSE IF cell_id < 0 THEN [g |-> g, c |-> c, err |-> "none"]
    ELSE LET e == EnsureGroup(g, c)
         IN IF rg_mode
            THEN PickRegion(mesh, e.g, e.c, tol, cell_id)
            ELSE PickSingle(mesh, e.g, e.c, cell_id)

\* cell_picked(cell_id); is_mesh: the picker handed over a mesh object
cell_picked(mesh, g, c, sel_mode, rg_mode, tol, is_mesh, cell_id) ==
    IF ~sel_mode THEN [g |-> g, c |-> c, err |-> "none"]
    ELSE IF is_mesh THEN [g |-> g, c |-> c, err |-> "none"]
    ELSE IF cell_id < 0 THEN [g |-> g, c |-> c, err |-> "none"]
    ELSE LET e == EnsureGroup(g, c)
         IN IF rg_mode
            THEN PickRegion(mesh, e.g, e.c, tol, cell_id)
            ELSE PickSingle(mesh, e.g, e.c, cell_id)

(***************************************************************************)
(* export_selection_groups and write_ascii_stl_solid.  The written file is *)
(* a sequence of solids [name, faces, complete]: faces are the face ids    *)
(* of the original mesh in the order extract_cells keeps them (ascending), *)
(* complete is FALSE for a solid whose write was cut short.                *)
(* A fault is what the environment does to this export: [kind, at] with    *)
(* kind "none", "read" (pv.read raises), "open" (open raises), "convert"   *)
(* (extract_surface raises for the at-th solid), "write" (file.write       *)
(* raises inside the at-th solid).                                         *)
(***************************************************************************)
Faults ==
    {[kind |-> "none", at |-> 0], [kind |-> "read", at |-> 0],
     [kind |-> "open", at |-> 0]}
    \cup {[kind |-> k, at |-> i] : k \in {"convert", "write"},
                                   i \in 1..(MaxGroups + 1)}

\* the ids of a set in ascending order: the cells a boolean mask extracts
RECURSIVE Ascending(_)
Ascending(S) ==
    IF S = {} THEN <<>>
    ELSE LET m == CHOOSE x \in S : \A y \in S : x <= y
         IN <<m>> \o Ascending(S \ {m})

\* non_empty_groups = [group for group in selection_groups if len(group) > 0]
non_empty_groups(g) == SelectSeq(g, LAMBDA s : s # {})

\* mask[list(group)] = True raises for an id beyond the mesh's cells
MaskError(mesh, S) == \E f \in S : f >= mesh.n_cells

\* group_meshes: ("Group " + str(i+1), extract_cells(mask)) for i, group in
\* enumerate(non_empty_groups)
group_meshes(neg) ==
    [i \in 1..Len(neg) |->
        [name |-> "Group " \o ToString(i), faces |-> Ascending(neg[i])]]

\* the faces the body mask keeps: every cell not in all_selected
BodyFaces(mesh, neg) ==
    Cells(mesh) \ UNION {neg[i] : i \in 1..Len(neg)}

\* the (name, mesh) pairs handed to write_ascii_stl_solid, in order
SolidsToWrite(mesh, neg, only_selected) ==
    (IF ~only_selected /\ BodyFaces(mesh, neg) # {}
     THEN << [name |-> "Body", faces |-> Ascending(BodyFaces(mesh, neg))] >>
     ELSE <<>>)
    \o group_meshes(neg)

\* write_ascii_stl_solid for the k-th pair: what it appends to the file.
\* A failed conversion prints and returns without writing anything.
write_ascii_stl_solid(solid, k, fault) ==
    IF fault.kind = "convert" /\ fault.at = k THEN <<>>
    ELSE IF fault.kind = "write" /\ fault.at = k
         THEN << [name |-> solid.name, faces |-> solid.faces, complete |-> FALSE] >>
         ELSE << [name |-> solid.name, faces |-> solid.faces, complete |-> TRUE] >>

\* the writes of the "with open(...)" block up to and including pair k
RECURSIVE WriteAll(_, _, _)
WriteAll(todo, k, fault) ==
    IF k = 0 THEN <<>>
    ELSE IF fault.kind = "write" /\ fault.at < k
         THEN WriteAll(todo, k - 1, fault)
         ELSE WriteAll(todo, k - 1, fault) \o write_ascii_stl_solid(todo[k], k, fault)

\* TRUE iff file.write raises somewhere in the block
WriteRaises(todo, fault) == fault.kind = "write" /\ fault.at \in 1..Len(todo)

Failed(opened, solids) == [ok |-> FALSE, opened |-> opened, solids |-> solids]

\* export_selection_groups without the "nothing to export" return
export_selection_groups_no_empty_check(mesh, g, only_selected, fault) ==
    LET neg == non_empty_groups(g)
        todo == SolidsToWrite(mesh, neg, only_selected)
    IN IF fault.kind = "read" THEN Failed(FALSE, <<>>)
       ELSE IF \E i \in 1..Len(neg) : MaskError(mesh, neg[i]) THEN Failed(FALSE, <<>>)
       ELSE IF fault.kind = "open" THEN Failed(FALSE, <<>>)
       ELSE IF WriteRaises(todo, fault)
            THEN Failed(TRUE, WriteAll(todo, Len(todo), fault))
            ELSE [ok |-> TRUE, opened |-> TRUE,
                  solids |-> WriteAll(todo, Len(todo), fault)]

export_selection_groups(mesh, g, only_selected, fault) ==
    LET neg == non_empty_groups(g)
        todo == SolidsToWrite(mesh, neg, only_selected)
    IN IF fault.kind = "read" THEN Failed(FALSE, <<>>)
       ELSE IF Len(neg) = 0 THEN Failed(FALSE, <<>>)
       ELSE IF \E i \in 1..Len(neg) : MaskError(mesh, neg[i]) THEN Failed(FALSE, <<>>)
       ELSE IF fault.kind = "open" THEN Failed(FALSE, <<>>)
       ELSE IF WriteRaises(todo, fault)
            THEN Failed(TRUE, WriteAll(todo, Len(todo), fault))
            ELSE [ok |-> TRUE, opened |-> TRUE,
                  solids |-> WriteAll(todo, Len(todo), fault)]

(***************************************************************************)
(* The viewer session.                                                     *)
(***************************************************************************)
SliderValues == {15, 90}    \* positions of the angle slider, in [1.0, 90.0]
PickIds == -1 .. ViewMesh.n_cells   \* cell ids a pick may carry

NoOut == [ok |-> FALSE, opened |-> FALSE, solids |-> <<>>]
NoRG == [pc |-> "off"]
NoSplit == [pc |-> "off"]

Sel == [g |-> selection_groups, c |-> current_group]

\* bookkeeping of the handler that ran: op with argument arg ended with err
Ran(op, arg, err) ==
    /\ last' = [op |-> op, arg |-> arg, err |-> err]
    /\ pre' = Sel
    /\ IF last.op = op /\ last.arg = arg /\ run < MaxGroups
       THEN run' = run + 1 /\ start' = start
       ELSE run' = 1 /\ start' = Sel

Init ==
    /\ shown = FALSE
    /\ selection_groups = <<>>
    /\ current_group = 0
    /\ selection_mode = FALSE
    /\ region_growing_mode = FALSE
    /\ angle_tolerance = 15
    /\ last = [op |-> "load", arg |-> 0, err |-> "none"]
    /\ pre = [g |-> <<>>, c |-> 0]
    /\ run = 0
    /\ start = [g |-> <<>>, c |-> 0]
    /\ out = NoOut
    /\ rg = NoRG
    /\ split = NoSplit

\* The group list stays within the bound of the model
Room(r) == Len(r.g) <= MaxGroups

\* display_stl, "Initialize state and UI": create_new_group()
DisplayInit ==
    /\ ~shown
    /\ shown' = TRUE
    /\ LET r == create_new_group(ViewMesh, selection_groups, current_group)
       IN /\ selection_groups' = r.g
          /\ current_group' = r.c
          /\ Ran("init", 0, r.err)
    /\ out' = NoOut
    /\ UNCHANGED <<selection_mode, region_growing_mode, angle_tolerance, rg, split>>

ToggleMode ==
    /\ shown
    /\ selection_mode' = ~selection_mode
    \* leaving selection mode goes through force_movement_mode
    /\ region_growing_mode' = IF selection_mode THEN FALSE ELSE region_growing_mode
    /\ Ran("toggle_mode", 0, "none")
    /\ out' = NoOut
    /\ UNCHANGED <<shown, selection_groups, current_group, angle_tolerance, rg, split>>

ForceMovementMode ==
    /\ shown
    /\ selection_mode' = FALSE
    /\ region_growing_mode' = FALSE
    /\ Ran("force_movement_mode", 0, "none")
    /\ out' = NoOut
    /\ UNCHANGED <<shown, selection_groups, current_group, angle_tolerance, rg, split>>

ToggleRegionGrowing ==
    /\ shown
    /\ region_growing_mode' = ~region_growing_mode
    /\ Ran("toggle_region_growing", 0, "none")
    /\ out' = NoOut
    /\ UNCHANGED <<shown, selection_groups, current_group, selection_mode,
                   angle_tolerance, rg, split>>

UpdateAngleTolerance ==
    /\ shown
    /\ \E value \in SliderValues :
        /\ angle_tolerance' = value
        /\ Ran("update_angle_tolerance", value, "none")
    /\ out' = NoOut
    /\ UNCHANGED <<shown, selection_groups, current_group, selection_mode,
                   region_growing_mode, rg, split>>

CreateNewGroup ==
    /\ shown
    /\ Room(create_new_group(ViewMesh, selection_groups, current_group))
    /\ LET r == create_new_group(ViewMesh, selection_groups, current_group)
       IN /\ selection_groups' = r.g
          /\ current_group' = r.c
          /\ Ran("create_new_group", 0, r.err)
    /\ out' = NoOut
    /\ UNCHANGED <<shown, selection_mode, region_growing_mode, angle_tolerance, rg, split>>

NextGroup ==
    /\ shown
    /\ LET r == next_group(selection_groups, current_group)
       IN /\ selection_groups' = r.g
          /\ current_group' = r.c
          /\ Ran("next_group", 0, r.err)
    /\ out' = NoOut
    /\ UNCHANGED <<shown, selection_mode, region_growing_mode, angle_tolerance, rg, split>>

ClearSelection ==
    /\ shown
    /\ LET r == clear_selection(ViewMesh, selection_groups, current_group)
       IN /\ selection_groups' = r.g
          /\ current_group' = r.c
          /\ Ran("clear_selection", 0, r.err)
    /\ out' = NoOut
    /\ UNCHANGED <<shown, selection_mode, region_growing_mode, angle_tolerance, rg, split>>

\* a pick event carrying an integer cell id
CellPicked ==
    /\ shown
    /\ \E cell_id \in PickIds :
        LET r == cell_picked(ViewMesh, selection_groups, current_group,
                             selection_mode, region_growing_mode,
                             angle_tolerance, FALSE, cell_id)
        IN /\ selection_groups' = r.g
           /\ current_group' = r.c
           /\ Ran("cell_picked", cell_id, r.err)
    /\ out' = NoOut
    /\ UNCHANGED <<shown, selection_mode, region_growing_mode, angle_tolerance, rg, split>>

\* a pick event of the built-in picker, which hands over a mesh object
CellPickedMesh ==
    /\ shown
    /\ LET r == cell_picked(ViewMesh, selection_groups, current_group,
                            selection_mode, region_growing_mode,
                            angle_tolerance, TRUE, 0)
       IN /\ selection_groups' = r.g
          /\ current_group' = r.c
          /\ Ran("cell_picked_mesh", 0, r.err)
    /\ out' = NoOut
    /\ UNCHANGED <<shown, selection_mode, region_growing_mode, angle_tolerance, rg, split>>

\* export_interactive: arg is 1 for "only selected", 0 for the full mesh
ExportInteractive ==
    /\ shown
    /\ \E only_selected \in BOOLEAN, fault \in Faults :
        /\ out' = export_selection_groups(ViewMesh, selection_groups,
                                          only_selected, fault)
        /\ Ran("export", IF only_selected THEN 1 ELSE 0, "none")
    /\ UNCHANGED <<shown, selection_groups, current_group, selection_mode,
                   region_growing_mode, angle_tolerance, rg, split>>

Next ==
    \/ DisplayInit
    \/ ToggleMode
    \/ ForceMovementMode
    \/ ToggleRegionGrowing
    \/ UpdateAngleTolerance
    \/ CreateNewGroup
    \/ NextGroup
    \/ ClearSelection
    \/ CellPicked
    \/ CellPickedMesh
    \/ ExportInteractive

Spec == Init /\ [][Next]_vars

(***************************************************************************)
(* The region growing loop, one "while candidates" iteration per step,     *)
(* over every mesh of a bounded family, every seed and a set of            *)
(* tolerances.  rg is [pc, mesh, seed, tol, selected_faces, candidates,    *)
(* iteration, prev, err]: prev is selected_faces before the last           *)
(* iteration, err the exception the call raised.                           *)
(***************************************************************************)
MaxCells == 3

\* triangles a cell may be: a strip 0-1-2, 2-3-4, 4-5-6 whose consecutive
\* triangles share one vertex, the first and the last none
Triangles == { <<0, 1, 2>>, <<2, 3, 4>>, <<4, 5, 6>> }
Normals == {ZP, XP, ZM, ZeroVec}
Tolerances == {-1, 0, 90, 180}

Meshes ==
    UNION {{[n_cells |-> n, point_ids |-> p, cell_normals |-> v] :
                p \in [1..n -> Triangles], v \in [1..n -> Normals]} :
           n \in 1..MaxCells}

ViewerIdle ==
    /\ shown = FALSE
    /\ selection_groups = <<>>
    /\ current_group = 0
    /\ selection_mode = FALSE
    /\ region_growing_mode = FALSE
    /\ angle_tolerance = 15
    /\ last = [op |-> "load", arg |-> 0, err |-> "none"]
    /\ pre = [g |-> <<>>, c |-> 0]
    /\ run = 0
    /\ start = [g |-> <<>>, c |-> 0]
    /\ out = NoOut

viewer_vars == <<shown, selection_groups, current_group, selection_mode,
                 region_growing_mode, angle_tolerance, last, pre, run, start, out>>

\* the seeds a caller may pass: the cells, and ids on either side of them
Seeds(mesh) == (-mesh.n_cells - 1)..mesh.n_cells

\* lines 46-110: a seed for which line 48 or line 93 raises leaves the
\* function at once (pc "raise", nothing returned); for any other seed
\* selected_faces = {seed} and candidates = the seed's neighbours
InitRG ==
    /\ ViewerIdle
    /\ split = NoSplit
    /\ \E mesh \in Meshes : \E seed \in Seeds(mesh) : \E tol \in Tolerances :
        rg = IF RGError(mesh, seed) # "none"
             THEN [pc |-> "raise", mesh |-> mesh, seed |-> seed, tol |-> tol,
                   selected_faces |-> {}, candidates |-> {},
                   iteration |-> 0, prev |-> {}, err |-> RGError(mesh, seed)]
             ELSE [pc |-> "while", mesh |-> mesh, seed |-> seed, tol |-> tol,
                   selected_faces |-> {seed},
                   candidates |-> cell_neighbors(mesh)[seed],
                   iteration |-> 0, prev |-> {seed}, err |-> "none"]

\* lines 112-141: one iteration of the while loop
RGWhileStep ==
    /\ rg.pc = "while"
    /\ rg.candidates # {}
    /\ LET st == RGIteration(rg.mesh, rg.seed, rg.tol,
                             rg.selected_faces, rg.candidates)
       IN rg' = [rg EXCEPT !.selected_faces = st.sel,
                           !.candidates = st.new,
                           !.iteration = @ + 1,
                           !.prev = rg.selected_faces]
    /\ UNCHANGED <<viewer_vars, split>>

\* lines 143-145: the loop has ended, return selected_faces
RGReturn ==
    /\ rg.pc = "while"
    /\ rg.candidates = {}
    /\ rg' = [rg EXCEPT !.pc = "return"]
    /\ UNCHANGED <<viewer_vars, split>>

NextRG == RGWhileStep \/ RGReturn

SpecRG == InitRG /\ [][NextRG]_vars

(***************************************************************************)
(* Properties.                                                             *)
(***************************************************************************)
IsExport == last.op = "export"

\* the last handler was a pick that reached the single face branch
IsSinglePick ==
    /\ last.op = "cell_picked"
    /\ selection_mode /\ ~region_growing_mode
    /\ last.arg >= 0

\* the last handler was a pick that grew a region from a face of the mesh
IsRegionPick ==
    /\ last.op = "cell_picked"
    /\ selection_mode /\ region_growing_mode
    /\ last.arg \in Cells(ViewMesh)

\* the name the status line and the report give the group at position i
GroupName(i) == "Group " \o ToString(i + 1)

\* positions (0-based) of the non-empty groups, in creation order
NonEmptyIds ==
    Ascending({i \in 0..(Len(selection_groups) - 1) : selection_groups[i + 1] # {}})

GroupSolids == SelectSeq(out.solids, LAMBDA s : s.name # "Body")

\* C1: a successful export that wrote a solid for every non-empty group
\* names the solid of the group at position i "Group <i+1>" and writes the
\* group solids in creation order, also when an empty group precedes a
\* non-empty one.
C1_SolidNamedByGroupId ==
    (IsExport /\ out.ok /\ Len(GroupSolids) = Len(NonEmptyIds)) =>
        \A k \in 1..Len(GroupSolids) :
            /\ GroupSolids[k].name = GroupName(NonEmptyIds[k])
            /\ GroupSolids[k].faces = Ascending(selection_groups[NonEmptyIds[k] + 1])

\* C2: every member of every group is a face id of the mesh, and a pick
\* whose id is below 0 or at least the number of faces leaves every group
\* unchanged.
C2_PickRangeChecked ==
    /\ \A i \in 1..Len(selection_groups) : selection_groups[i] \subseteq Cells(ViewMesh)
    /\ (last.op = "cell_picked" /\ last.arg \notin Cells(ViewMesh)) =>
            selection_groups = pre.g

\* C3: whenever export returns success the file holds one complete solid
\* for every non-empty group, and for Body when it is non-empty in a full
\* export.
C3_SuccessMeansEverySolidWritten ==
    (IsExport /\ out.ok) =>
        /\ \A k \in 1..Len(out.solids) : out.solids[k].complete
        /\ Len(GroupSolids) = Len(NonEmptyIds)
        /\ \A k \in 1..Len(GroupSolids) :
              GroupSolids[k].faces = Ascending(selection_groups[NonEmptyIds[k] + 1])
        /\ (last.arg = 0 /\ BodyFaces(ViewMesh, non_empty_groups(selection_groups)) # {}) =>
              \E k \in 1..Len(out.solids) : out.solids[k].name = "Body"

\* C4: create_new_group appends an empty group at the end and makes it
\* active, leaving the existing groups as they were, if no group exists or
\* the active group is non-empty; otherwise it changes neither the group
\* list nor the active index.
C4_CreateGroup ==
    (last.op \in {"create_new_group", "init"}) =>
        IF Len(pre.g) = 0 \/ pre.g[pre.c + 1] # {}
        THEN /\ selection_groups = pre.g \o << {} >>
             /\ current_group = Len(pre.g)
        ELSE /\ selection_groups = pre.g
             /\ current_group = pre.c

C4_Witness ==
    /\ last.op = "create_new_group"
    /\ Len(pre.g) = 1 /\ pre.g[1] # {}
    /\ Len(selection_groups) = 2 /\ current_group = 1

\* faces f and h share at least one vertex
SharesVertex(mesh, f, h) ==
    f # h /\ PointIdsOf(mesh, f) \cap PointIdsOf(mesh, h) # {}

\* the faces reachable from the seed by chains of vertex-adjacent faces
\* whose every face after the seed is within tol of the seed's normal
RECURSIVE ChainReach(_, _, _, _)
ChainReach(mesh, seed, tol, R) ==
    LET more == {f \in Cells(mesh) \ R :
                    /\ AngleToSeed(mesh, mesh.cell_normals[seed + 1], f) <= tol
                    /\ \E h \in R : SharesVertex(mesh, f, h)}
    IN IF more = {} THEN R ELSE ChainReach(mesh, seed, tol, R \cup more)

C6_LoopBounded ==
    /\ rg.prev \subseteq rg.selected_faces
    /\ (rg.iteration > 0 /\ rg.candidates # {}) => rg.prev # rg.selected_faces
    /\ rg.iteration <= rg.mesh.n_cells
    /\ rg.selected_faces \subseteq Cells(rg.mesh)

\* the loop has ended after two growing iterations
C6_Witness ==
    /\ rg.pc = "return"
    /\ rg.iteration = 2
    /\ Cardinality(rg.selected_faces) = 3

\* C7: two single face picks of the same face in succession return every
\* group and the active index to their values before the first pick.
C7_ToggleTwiceRestores ==
    (IsSinglePick /\ run = 2) =>
        /\ selection_groups = start.g
        /\ current_group = start.c

C7_Witness ==
    /\ IsSinglePick /\ run = 2
    /\ Len(selection_groups) = 2
    /\ last.arg \in selection_groups[current_group + 1]
    /\ selection_groups[current_group + 1] # {last.arg}
    /\ pre.g # selection_groups

\* C8: a single face pick removes the picked face from the active group if
\* it is there and inserts it otherwise; every other face of the active
\* group, every other group, the number of groups and the active index
\* stay as they were.
C8_ToggleFrame ==
    IsSinglePick =>
        /\ Len(selection_groups) = Len(pre.g)
        /\ current_group = pre.c
        /\ \A i \in 1..Len(pre.g) :
              i # pre.c + 1 => selection_groups[i] = pre.g[i]
        /\ selection_groups[pre.c + 1] =
              IF last.arg \in pre.g[pre.c + 1]
              THEN pre.g[pre.c + 1] \ {last.arg}
              ELSE pre.g[pre.c + 1] \cup {last.arg}

\* a face is added to the active group while another group holds it too
C8_Witness ==
    /\ IsSinglePick
    /\ Len(selection_groups) = 2
    /\ last.arg \notin pre.g[pre.c + 1]
    /\ \A i \in 1..2 : last.arg \in selection_groups[i]

\* C9: a region growing pick unites the grown region with the active
\* group, removes no face from any group, leaves the other groups alone,
\* and changes nothing when it is repeated.
C9_RegionPickIsUnion ==
    IsRegionPick =>
        /\ Len(selection_groups) = Len(pre.g)
        /\ current_group = pre.c
        /\ selection_groups[pre.c + 1] =
              pre.g[pre.c + 1] \cup
              select_faces_by_region_growing(ViewMesh, last.arg, angle_tolerance)
        /\ \A i \in 1..Len(pre.g) :
              /\ pre.g[i] \subseteq selection_groups[i]
              /\ i # pre.c + 1 => selection_groups[i] = pre.g[i]
        /\ run >= 2 => selection_groups = pre.g

\* the same region of two faces picked twice
C9_Witness ==
    /\ IsRegionPick /\ run = 2
    /\ Cardinality(select_faces_by_region_growing(ViewMesh, last.arg, angle_tolerance)) = 2
    /\ Cardinality(selection_groups[current_group + 1]) >= 2

\* C10: next_group sets the active index to (active + 1) mod n for n >= 1
\* groups, changes no group, is back at the starting index after n calls
\* in succession, and changes nothing when there is no group.
C10_NextGroupCycles ==
    /\ (last.op = "next_group" /\ Len(pre.g) >= 1) =>
          /\ current_group = (pre.c + 1) % Len(pre.g)
          /\ selection_groups = pre.g
    /\ (last.op = "next_group" /\ run = Len(selection_groups)) =>
          current_group = start.c
    /\ next_group(<<>>, 0).g = <<>> /\ next_group(<<>>, 0).c = 0

C10_Witness ==
    /\ last.op = "next_group"
    /\ Len(selection_groups) = 2 /\ run = 2
    /\ selection_groups[1] # {}
    /\ current_group = start.c


\* C11: clear_selection empties the active group only: the number of
\* groups, the active index and every other group stay as they were, and
\* the cleared group keeps its place in the list.
C11_ClearFrame ==
    last.op = "clear_selection" =>
        /\ Len(selection_groups) = Len(pre.g)
        /\ current_group = pre.c
        /\ selection_groups[pre.c + 1] = {}
        /\ \A i \in 1..Len(pre.g) :
              i # pre.c + 1 => selection_groups[i] = pre.g[i]

\* a non-empty group is cleared while the other group keeps its faces
C11_Witness ==
    /\ last.op = "clear_selection"
    /\ Len(pre.g) = 2
    /\ pre.g[pre.c + 1] # {}
    /\ \E i \in 1..2 : i # pre.c + 1 /\ selection_groups[i] # {}

\* C12: no handler deletes a group: the group list never gets shorter, and
\* every group other than the one the handler works on stays at its
\* position with its members.
C12_GroupsNeverDeleted ==
    /\ Len(selection_groups) >= Len(pre.g)
    /\ \A i \in 1..Len(pre.g) :
          i # pre.c + 1 => selection_groups[i] = pre.g[i]

\* the first of two groups has been cleared and is still in the list
C12_Witness ==
    /\ last.op = "clear_selection"
    /\ Len(selection_groups) = 2
    /\ pre.c = 0 /\ pre.g[1] # {}
    /\ selection_groups[1] = {} /\ selection_groups[2] # {}

\* C13: whenever a group exists the active index is within the group list;
\* once the viewer is initialised a group always exists; and a pick that
\* finds no group creates group 0, makes it active and toggles the face in
\* it.
C13_ActiveIndexInRange ==
    /\ Len(selection_groups) >= 1 =>
          (0 <= current_group /\ current_group < Len(selection_groups))
    /\ shown => Len(selection_groups) >= 1
    /\ LET r == cell_picked(ViewMesh, <<>>, 0, TRUE, FALSE, 15, FALSE, 0)
       IN r.g = << {0} >> /\ r.c = 0

\* the active index has wrapped around from the last group to the first
C13_Witness ==
    /\ shown
    /\ Len(selection_groups) = MaxGroups
    /\ last.op = "next_group"
    /\ pre.c = MaxGroups - 1 /\ current_group = 0

\* C14: an export with no non-empty group returns failure, does not open
\* the output file and leaves the selection state as it was.
C14_EmptyExportFails ==
    (IsExport /\ Len(NonEmptyIds) = 0) =>
        /\ ~out.ok
        /\ ~out.opened
        /\ out.solids = <<>>
        /\ selection_groups = pre.g
        /\ current_group = pre.c

\* an export with two groups, both cleared or never filled
C14_Witness ==
    /\ IsExport
    /\ Len(selection_groups) = 2
    /\ Len(NonEmptyIds) = 0
    /\ ~out.ok


\* the faces of the mesh that belong to no group
UnselectedFaces ==
    Cells(ViewMesh) \ UNION {selection_groups[i] : i \in 1..Len(selection_groups)}

\* C15: in a successful full export the Body solid holds exactly the faces
\* that belong to no group, is the first solid if and only if there is such
\* a face, and no other solid is named Body; an export of the selected
\* faces only writes no Body solid.
C15_BodyIsUnselectedFaces ==
    (IsExport /\ out.ok) =>
        IF last.arg = 0
        THEN /\ UnselectedFaces # {} <=>
                  (Len(out.solids) >= 1 /\ out.solids[1].name = "Body")
             /\ UnselectedFaces # {} =>
                  out.solids[1].faces = Ascending(UnselectedFaces)
             /\ \A k \in 2..Len(out.solids) : out.solids[k].name # "Body"
        ELSE \A k \in 1..Len(out.solids) : out.solids[k].name # "Body"


\* C18: a zero-area face, whose normal is the zero vector, is never added
\* by region growing as a non-seed face, whatever the angle tolerance.
C18_ZeroAreaNeverAccepted ==
    rg.pc = "return" =>
        \A f \in rg.selected_faces \ {rg.seed} :
            rg.mesh.cell_normals[f + 1] # ZeroVec

\* the faces sharing a vertex with the seed
SeedNeighbours ==
    {f \in Cells(rg.mesh) : SharesVertex(rg.mesh, f, rg.seed)}

\* C19: region growing always returns the seed, and returns the seed alone
\* when no neighbour of the seed is within the tolerance of the seed's
\* normal, as with every negative tolerance.
C19_SeedAloneWhenNoNeighbourPasses ==
    rg.pc = "return" =>
        /\ rg.seed \in rg.selected_faces
        /\ (\A n \in SeedNeighbours :
                AngleToSeed(rg.mesh, rg.mesh.cell_normals[rg.seed + 1], n) > rg.tol)
              => rg.selected_faces = {rg.seed}
        /\ rg.tol < 0 => rg.selected_faces = {rg.seed}

\* tolerance 0, the seed's only neighbour is off its normal, and a face
\* beyond that neighbour has the seed's normal
C19_Witness ==
    /\ rg.pc = "return"
    /\ rg.tol = 0
    /\ rg.selected_faces = {rg.seed}
    /\ Cardinality(SeedNeighbours) = 1
    /\ \E f \in Cells(rg.mesh) \ (SeedNeighbours \cup {rg.seed}) :
          /\ rg.mesh.cell_normals[f + 1] = rg.mesh.cell_normals[rg.seed + 1]
          /\ \E n \in SeedNeighbours : SharesVertex(rg.mesh, f, n)

\* the connected component of the seed under vertex adjacency
RECURSIVE Component(_, _)
Component(mesh, R) ==
    LET more == {f \in Cells(mesh) \ R : \E h \in R : SharesVertex(mesh, f, h)}
    IN IF more = {} THEN R ELSE Component(mesh, R \cup more)

\* C20: with a tolerance of 180 degrees or more region growing returns
\* exactly the connected component of the seed under vertex adjacency.
C20_FullComponentAt180 ==
    (rg.pc = "return" /\ rg.tol >= 180) =>
        rg.selected_faces = Component(rg.mesh, {rg.seed})

\* a component of two faces, one of them opposite to the seed, in a mesh
\* with a face outside the component
C20_Witness ==
    /\ rg.pc = "return" /\ rg.tol >= 180
    /\ Cardinality(rg.selected_faces) = 2
    /\ rg.mesh.n_cells = 3
    /\ \E f \in rg.selected_faces :
          AngleToSeed(rg.mesh, rg.mesh.cell_normals[rg.seed + 1], f) = 180


(***************************************************************************)
(* split_stl.py: the selection rules applied to a mesh given by its        *)
(* triangles.  A face is a triple of points with integer coordinates; the  *)
(* shapes are faces of a cube of side 3 and one zero-area face.  Dot       *)
(* products and tolerances are in thousandths (One is 1.0), which keeps    *)
(* the comparison of line 24 exact.                                        *)
(* split is [pc, mesh, normal_patch, normal_tol, bbox_patch, idx, counter]: *)
(* an option that was not given is <<>>, idx is the last selection made,   *)
(* counter the number of patches exported.                                 *)
(***************************************************************************)
One == 1000

SplitShapes ==
    { << <<0, 0, 3>>, <<3, 0, 3>>, <<0, 3, 3>> >>,     \* top, normal +z
      << <<0, 0, 0>>, <<0, 3, 0>>, <<3, 0, 0>> >>,     \* bottom, normal -z
      << <<3, 0, 0>>, <<3, 3, 0>>, <<3, 0, 3>> >>,     \* side, normal +x
      << <<0, 0, 0>>, <<3, 3, 3>>, <<6, 6, 6>> >> }    \* collinear, zero area

SplitMeshes == UNION {[1..n -> SplitShapes] : n \in 1..MaxCells}

\* --normal-patch NX NY NZ
NormalPatches == { <<0, 0, 1>>, <<0, 0, 2>>, <<1, 0, 0>>, <<0, 0, -1>> }

\* tol in thousandths: 0, the default of select_faces_by_normal (0.01), the
\* default of --normal-tol (0.02), 1.5 and 2.5
NormalTols == {0, 10, 20, 1500, 2500}

Sub(a, b) == <<a[1] - b[1], a[2] - b[2], a[3] - b[3]>>

Cross(a, b) ==
    <<a[2] * b[3] - a[3] * b[2], a[3] * b[1] - a[1] * b[3], a[1] * b[2] - a[2] * b[1]>>

Abs(x) == IF x < 0 THEN -x ELSE x

\* np.linalg.norm of a vector whose length is a whole number
Norm(v) == CHOOSE r \in 0..(Abs(v[1]) + Abs(v[2]) + Abs(v[3])) : r * r = Dot(v, v)

\* mesh.face_normals: the unit normal of a triangle, the zero vector for a
\* zero-area triangle
FaceNormal(tri) ==
    LET n == Cross(Sub(tri[2], tri[1]), Sub(tri[3], tri[1]))
    IN IF Norm(n) = 0 THEN ZeroVec
       ELSE <<n[1] \div Norm(n), n[2] \div Norm(n), n[3] \div Norm(n)>>

\* line 22: t = target_normal / norm(target_normal), in thousandths
UnitTarget(target) ==
    <<(target[1] * One) \div Norm(target), (target[2] * One) \div Norm(target),
      (target[3] * One) \div Norm(target)>>

\* lines 20-24: np.where(np.abs(dots - 1.0) < tol)[0]
select_faces_by_normal(mesh, target_normal, tol) ==
    {f \in 0..(Len(mesh) - 1) :
        Abs(Dot(FaceNormal(mesh[f + 1]), UnitTarget(target_normal)) - One) < tol}

\* an interval [min, max] of --bbox-patch: wide, a single value, or inverted
Intervals == { <<0, 3>>, <<1, 1>>, <<2, 1>> }

\* --bbox-patch XMIN XMAX YMIN YMAX ZMIN ZMAX
BBoxPatches ==
    { <<x[1], x[2], y[1], y[2], z[1], z[2]>> : x \in Intervals, y \in Intervals, z \in Intervals }

\* the default of --normal-tol, 0.02
DefaultNormalTol == 20

\* mesh.triangles_center: the mean of a triangle's three vertices (a whole
\* number on every axis for the shapes above)
Centroid(tri) ==
    <<(tri[1][1] + tri[2][1] + tri[3][1]) \div 3,
      (tri[1][2] + tri[2][2] + tri[3][2]) \div 3,
      (tri[1][3] + tri[2][3] + tri[3][3]) \div 3>>

\* bbox_idx with open intervals, ">" and "<" for ">=" and "<="
bbox_idx_open(mesh, box) ==
    {f \in 0..(Len(mesh) - 1) :
        LET c == Centroid(mesh[f + 1])
        IN /\ c[1] > box[1] /\ c[1] < box[2]
           /\ c[2] > box[3] /\ c[2] < box[4]
           /\ c[3] > box[5] /\ c[3] < box[6]}

\* lines 76-83: idx = np.nonzero(mask)[0]
bbox_idx(mesh, box) ==
    {f \in 0..(Len(mesh) - 1) :
        LET c == Centroid(mesh[f + 1])
        IN /\ c[1] >= box[1] /\ c[1] <= box[2]
           /\ c[2] >= box[3] /\ c[2] <= box[4]
           /\ c[3] >= box[5] /\ c[3] <= box[6]}

\* The command lines: a normal patch with any tolerance, a box, or both
\* with the default tolerance.
SplitArgs ==
    {[normal_patch |-> t, normal_tol |-> tol, bbox_patch |-> <<>>] :
        t \in NormalPatches, tol \in NormalTols}
    \cup {[normal_patch |-> t, normal_tol |-> DefaultNormalTol, bbox_patch |-> b] :
        t \in NormalPatches \cup {<<>>}, b \in BBoxPatches}

InitSplit ==
    /\ ViewerIdle
    /\ rg = NoRG
    /\ \E mesh \in SplitMeshes : \E args \in SplitArgs :
        split = [pc |-> "normal", mesh |-> mesh, normal_patch |-> args.normal_patch,
                 normal_tol |-> args.normal_tol, bbox_patch |-> args.bbox_patch,
                 idx |-> {}, counter |-> 0]

\* lines 66-68: idx = select_faces_by_normal(mesh, normals, tol=args.normal_tol)
NormalPatch ==
    /\ split.pc = "normal"
    /\ split.normal_patch # <<>>
    /\ split' = [split EXCEPT
                    !.idx = select_faces_by_normal(split.mesh, split.normal_patch,
                                                   split.normal_tol),
                    !.pc = "selected"]
    /\ UNCHANGED <<viewer_vars, rg>>

\* line 66: no --normal-patch
NoNormalPatch ==
    /\ split.pc = "normal"
    /\ split.normal_patch = <<>>
    /\ split' = [split EXCEPT !.pc = "bbox"]
    /\ UNCHANGED <<viewer_vars, rg>>

\* lines 69-72 and 84-87: export_patch(mesh, idx, fname), then counter += 1.
\* export_patch calls export on what mesh.submesh([idx]) returned and
\* writes a file: it returns, or it raises and ends the run.
ExportPatch ==
    /\ split.pc \in {"selected", "boxed"}
    /\ \E raises \in BOOLEAN :
        split' = IF raises THEN [split EXCEPT !.pc = "raise"]
                 ELSE [split EXCEPT !.counter = @ + 1,
                                    !.pc = IF split.pc = "selected" THEN "bbox" ELSE "json"]
    /\ UNCHANGED <<viewer_vars, rg>>

\* lines 75-83: the mask over the face centroids and idx = np.nonzero(mask)[0]
BBoxPatch ==
    /\ split.pc = "bbox"
    /\ split.bbox_patch # <<>>
    /\ split' = [split EXCEPT !.idx = bbox_idx(split.mesh, split.bbox_patch),
                              !.pc = "boxed"]
    /\ UNCHANGED <<viewer_vars, rg>>

\* line 75: no --bbox-patch
NoBBoxPatch ==
    /\ split.pc = "bbox"
    /\ split.bbox_patch = <<>>
    /\ split' = [split EXCEPT !.pc = "json"]
    /\ UNCHANGED <<viewer_vars, rg>>

\* lines 91-96: dump the patches
DumpJson ==
    /\ split.pc = "json"
    /\ split' = [split EXCEPT !.pc = "done"]
    /\ UNCHANGED <<viewer_vars, rg>>

NextSplit ==
    \/ NormalPatch
    \/ NoNormalPatch
    \/ ExportPatch
    \/ BBoxPatch
    \/ NoBBoxPatch
    \/ DumpJson

SpecSplit == InitSplit /\ [][NextSplit]_vars

\* C17: a face whose unit normal equals the normalised target, so that the
\* dot product is 1, is selected by select_faces_by_normal for every
\* tolerance >= 0, tolerance 0 included.
C17_ExactMatchSelected ==
    split.pc = "selected" =>
        \A f \in 0..(Len(split.mesh) - 1) :
            (split.normal_tol >= 0 /\
             Dot(FaceNormal(split.mesh[f + 1]), UnitTarget(split.normal_patch)) = One)
                => f \in split.idx


(***************************************************************************)
(* The text write_ascii_stl_solid writes (lines 956-982), line by line.    *)
(* A line is [kw, name, v]: its keyword, the solid's name on a solid or    *)
(* endsolid line, and the three formatted numbers of a facet normal or     *)
(* vertex line.  A number formatted with ".6e" is [m, e]: the signed seven *)
(* digits d.dddddd without the point, and the exponent.                    *)
(***************************************************************************)
RECURSIVE Pow10(_)
Pow10(k) == IF k = 0 THEN 1 ELSE 10 * Pow10(k - 1)

\* the exponent of a positive whole number: one less than its digit count
RECURSIVE Exp10(_)
Exp10(a) == IF a < 10 THEN 0 ELSE 1 + Exp10(a \div 10)

\* a divided by d, rounded to the nearest whole number, ties to even
RoundHalfEven(a, d) ==
    LET q == a \div d
        r == a % d
    IN IF 2 * r > d \/ (2 * r = d /\ q % 2 = 1) THEN q + 1 ELSE q

\* f"{x:.6e}" for a whole number x
Format6e(x) ==
    IF x = 0 THEN [m |-> 0, e |-> 0]
    ELSE LET a == Abs(x)
             k == Exp10(a)
             d == IF k <= 6 THEN a * Pow10(6 - k) ELSE RoundHalfEven(a, Pow10(k - 6))
             m == IF d = Pow10(7) THEN Pow10(6) ELSE d
             e == IF d = Pow10(7) THEN k + 1 ELSE k
         IN [m |-> IF x < 0 THEN -m ELSE m, e |-> e]

Format3(v) == <<Format6e(v[1]), Format6e(v[2]), Format6e(v[3])>>

Line(kw, name, v) == [kw |-> kw, name |-> name, v |-> v]

\* lines 960-979: the seven lines of cell f
FacetText(mesh, f) ==
    << Line("facet normal", "", Format3(mesh.cell_normals[f + 1])),
       Line("outer loop", "", <<>>),
       Line("vertex", "", Format3(mesh.points[mesh.point_ids[f + 1][1] + 1])),
       Line("vertex", "", Format3(mesh.points[mesh.point_ids[f + 1][2] + 1])),
       Line("vertex", "", Format3(mesh.points[mesh.point_ids[f + 1][3] + 1])),
       Line("endloop", "", <<>>),
       Line("endfacet", "", <<>>) >>

RECURSIVE FacetsText(_, _)
FacetsText(mesh, faces) ==
    IF faces = <<>> THEN <<>>
    ELSE FacetText(mesh, Head(faces)) \o FacetsText(mesh, Tail(faces))

\* SolidText closing the block with a bare "endsolid", the name left out
SolidText_unnamed_footer(mesh, solid) ==
    IF solid.complete
    THEN << Line("solid", solid.name, <<>>) >>
         \o FacetsText(mesh, solid.faces)
         \o << Line("endsolid", "", <<>>) >>
    ELSE << Line("solid", solid.name, <<>>) >>

\* lines 956-982 for one written solid; a write cut short leaves what was
\* written before it, here the header line
SolidText(mesh, solid) ==
    IF solid.complete
    THEN << Line("solid", solid.name, <<>>) >>
         \o FacetsText(mesh, solid.faces)
         \o << Line("endsolid", solid.name, <<>>) >>
    ELSE << Line("solid", solid.name, <<>>) >>

\* the text of the output file: the solids' texts one after the other
RECURSIVE FileText(_, _)
FileText(mesh, solids) ==
    IF solids = <<>> THEN <<>>
    ELSE SolidText(mesh, Head(solids)) \o FileText(mesh, Tail(solids))

(***************************************************************************)
(* The reader used for round trips: it parses the solid ... endsolid       *)
(* blocks of a text, each giving a name and a list of triangles.           *)
(***************************************************************************)
\* the value of a formatted whole number
Parse6e(t) ==
    IF t.e >= 6 THEN t.m * Pow10(t.e - 6)
    ELSE IF t.m >= 0 THEN t.m \div Pow10(6 - t.e) ELSE -((-t.m) \div Pow10(6 - t.e))

Parse3(v) == <<Parse6e(v[1]), Parse6e(v[2]), Parse6e(v[3])>>

\* st is [done, name, facets, verts]: the blocks read, and the name, the
\* triangles and the vertices of the block and facet being read
RECURSIVE ReadFrom(_, _, _)
ReadFrom(lines, i, st) ==
    IF i > Len(lines) THEN st.done
    ELSE LET l == lines[i]
         IN ReadFrom(lines, i + 1,
              CASE l.kw = "solid" ->
                     [st EXCEPT !.name = l.name, !.facets = <<>>, !.verts = <<>>]
                [] l.kw = "vertex" ->
                     [st EXCEPT !.verts = Append(@, Parse3(l.v))]
                [] l.kw = "endfacet" ->
                     [st EXCEPT !.facets = Append(@, st.verts), !.verts = <<>>]
                [] l.kw = "endsolid" ->
                     [st EXCEPT !.done = Append(@, [name |-> st.name, facets |-> st.facets]),
                                !.facets = <<>>]
                [] OTHER -> st)

ReadSolids(lines) ==
    ReadFrom(lines, 1, [done |-> <<>>, name |-> "", facets |-> <<>>, verts |-> <<>>])

\* the three vertices of face f of the viewer's mesh, in winding order
FaceVertices(f) ==
    [k \in 1..3 |-> ViewMesh.points[ViewMesh.point_ids[f + 1][k] + 1]]

\* C16: a successful export of the selected faces only, with exactly one
\* non-empty group of k faces, reads back as exactly one named solid of
\* exactly k facets whose vertices are those of the k selected faces.
C16_RoundTripOneGroup ==
    (IsExport /\ out.ok /\ last.arg = 1 /\ Len(NonEmptyIds) = 1) =>
        LET read == ReadSolids(FileText(ViewMesh, out.solids))
            faces == Ascending(selection_groups[NonEmptyIds[1] + 1])
        IN /\ Len(read) = 1
           /\ read[1].name # ""
           /\ Len(read[1].facets) = Len(faces)
           /\ \A k \in 1..Len(faces) : read[1].facets[k] = FaceVertices(faces[k])


\* C21: region growing called with a seed outside 0..F-1, negative or too
\* large, fails with an IndexError and returns no selection; the selection
\* groups are left as they were.
C21_SeedOutOfRangeIndexError ==
    (rg.pc # "off" /\ rg.seed \notin Cells(rg.mesh)) =>
        /\ rg.pc = "raise"
        /\ rg.err = "IndexError"
        /\ rg.selected_faces = {}
        /\ selection_groups = <<>>


\* C22: the adjacency computed for a mesh is symmetric: f2 is a neighbour
\* of f1 if and only if f1 is a neighbour of f2.
C22_AdjacencySymmetric ==
    rg.pc \in {"while", "return"} =>
        \A f1, f2 \in Cells(rg.mesh) :
            f2 \in cell_neighbors(rg.mesh)[f1] <=> f1 \in cell_neighbors(rg.mesh)[f2]

\* a mesh of three faces in which 0 and 1 are neighbours and 0 and 2 are not
C22_Witness ==
    /\ rg.pc = "return"
    /\ rg.mesh.n_cells = 3
    /\ 1 \in cell_neighbors(rg.mesh)[0]
    /\ 0 \in cell_neighbors(rg.mesh)[1]
    /\ 2 \notin cell_neighbors(rg.mesh)[0]

\* C27: the adjacency has exactly one entry per face, and the neighbours of
\* a face are exactly the other faces sharing at least one vertex with it;
\* one shared vertex is enough and no face is its own neighbour.
C27_AdjacencyExact ==
    rg.pc \in {"while", "return"} =>
        /\ DOMAIN cell_neighbors(rg.mesh) = Cells(rg.mesh)
        /\ \A f \in Cells(rg.mesh) :
            /\ f \notin cell_neighbors(rg.mesh)[f]
            /\ cell_neighbors(rg.mesh)[f] =
                 {h \in Cells(rg.mesh) \ {f} :
                     PointIdsOf(rg.mesh, f) \cap PointIdsOf(rg.mesh, h) # {}}

\* two faces sharing exactly one vertex are neighbours, and a third face
\* sharing none with the first is not
C27_Witness ==
    /\ rg.pc = "return"
    /\ rg.mesh.n_cells = 3
    /\ Cardinality(PointIdsOf(rg.mesh, 0) \cap PointIdsOf(rg.mesh, 1)) = 1
    /\ cell_neighbors(rg.mesh)[0] = {1}
    /\ PointIdsOf(rg.mesh, 0) \cap PointIdsOf(rg.mesh, 2) = {}


\* the box of --bbox-patch is inverted on some axis: min > max
Inverted(box) == box[1] > box[2] \/ box[3] > box[4] \/ box[5] > box[6]

\* C23: the bounding box rule selects a face if and only if each coordinate
\* of its centroid lies in the closed interval [min, max] of its axis,
\* boundary values included; a box inverted on an axis selects no face and
\* the rule raises no error.
C23_BoundingBoxClosed ==
    split.pc = "boxed" =>
        LET box == split.bbox_patch
        IN /\ \A f \in 0..(Len(split.mesh) - 1) :
                f \in split.idx <=>
                    \A i \in 1..3 :
                        ~(Centroid(split.mesh[f + 1])[i] < box[2 * i - 1])
                        /\ ~(box[2 * i] < Centroid(split.mesh[f + 1])[i])
           /\ Inverted(box) => split.idx = {}

\* a face whose centroid lies on the boundary of the box on every axis is
\* selected, and another face of the mesh is not
C23_Witness ==
    /\ split.pc = "boxed"
    /\ split.bbox_patch = <<1, 1, 1, 1, 0, 3>>
    /\ \E f \in split.idx : Centroid(split.mesh[f + 1]) = <<1, 1, 3>>
    /\ \E f \in 0..(Len(split.mesh) - 1) : f \notin split.idx


\* the keywords of the seven lines of one facet, in order
FacetKeywords ==
    <<"facet normal", "outer loop", "vertex", "vertex", "vertex", "endloop", "endfacet">>

\* lines i .. i+6 are one facet
FacetAt(lines, i) ==
    /\ i + 6 <= Len(lines)
    /\ \A k \in 1..7 : lines[i + k - 1].kw = FacetKeywords[k]

\* the first line at or after i that does not start a facet
RECURSIVE SkipFacets(_, _)
SkipFacets(lines, i) ==
    IF FacetAt(lines, i) THEN SkipFacets(lines, i + 7) ELSE i

\* from line i on, the text is a sequence of blocks "solid <name>", whole
\* facets, "endsolid <name>" whose facet counts are the numbers in counts
RECURSIVE IsBlocks(_, _, _)
IsBlocks(lines, i, counts) ==
    IF i > Len(lines) THEN counts = <<>>
    ELSE LET j == SkipFacets(lines, i + 1)
         IN /\ counts # <<>>
            /\ lines[i].kw = "solid"
            /\ j <= Len(lines)
            /\ lines[j].kw = "endsolid"
            /\ lines[j].name = lines[i].name
            /\ j - (i + 1) = 7 * Head(counts)
            /\ IsBlocks(lines, j + 1, Tail(counts))

\* C24: the file of a successful export is a concatenation of solid
\* blocks that do not nest: each starts with "solid <name>", ends with
\* "endsolid <name>" of the same name, and holds between them, for each
\* face of the solid, exactly the lines facet normal, outer loop, vertex,
\* vertex, vertex, endloop, endfacet in this order.
C24_FileIsSolidBlocks ==
    (IsExport /\ out.ok) =>
        IsBlocks(FileText(ViewMesh, out.solids), 1,
                 [k \in 1..Len(out.solids) |-> Len(out.solids[k].faces)])

\* a file of two solids, one of them with two faces
C24_Witness ==
    /\ IsExport /\ out.ok
    /\ Len(out.solids) = 2
    /\ \E k \in 1..2 : Len(out.solids[k].faces) = 2
    /\ \A k \in 1..2 : out.solids[k].complete


(***************************************************************************)
(* The unit cube: 8 vertices, 12 triangles, two per side, wound so that    *)
(* the normals point outwards.  Point p has coordinates (p % 2,            *)
(* (p \div 2) % 2, p \div 4); cells 0 and 1 are the top side z = 1.        *)
(* A run grows a region on the cube from a picked face, adds it to the     *)
(* only group, and exports.                                                *)
(***************************************************************************)
CubePoints == [p \in 1..8 |-> <<(p - 1) % 2, ((p - 1) \div 2) % 2, (p - 1) \div 4>>]

CubeFaces ==
    << <<4, 5, 7>>, <<4, 7, 6>>,      \* top,    +z
       <<0, 2, 3>>, <<0, 3, 1>>,      \* bottom, -z
       <<0, 1, 5>>, <<0, 5, 4>>,      \* front,  -y
       <<2, 7, 3>>, <<2, 6, 7>>,      \* back,   +y
       <<0, 4, 6>>, <<0, 6, 2>>,      \* left,   -x
       <<1, 3, 7>>, <<1, 7, 5>> >>    \* right,  +x

\* the cube as loaded, with the cell normals compute_normals gives it
CubeMesh ==
    [n_cells |-> 12,
     point_ids |-> CubeFaces,
     cell_normals |->
        [f \in 1..12 |-> FaceNormal(<<CubePoints[CubeFaces[f][1] + 1],
                                      CubePoints[CubeFaces[f][2] + 1],
                                      CubePoints[CubeFaces[f][3] + 1]>>)],
     points |-> CubePoints]

\* angle tolerances: below the slider's range, its ends 1 and 90, its
\* default 15, and 180
CubeTolerances == {0, 1, 15, 90, 180}

InitCube ==
    /\ ViewerIdle
    /\ split = NoSplit
    /\ \E seed \in Cells(CubeMesh) : \E tol \in CubeTolerances :
        rg = [pc |-> "while", mesh |-> CubeMesh, seed |-> seed, tol |-> tol,
              selected_faces |-> {seed},
              candidates |-> cell_neighbors(CubeMesh)[seed],
              iteration |-> 0, prev |-> {seed}, err |-> "none"]

\* cell_picked, lines 628-643: the grown faces are added to the one group
CubePick ==
    /\ rg.pc = "return"
    /\ selection_groups' = << rg.selected_faces >>
    /\ current_group' = 0
    /\ rg' = [rg EXCEPT !.pc = "picked"]
    /\ UNCHANGED <<shown, selection_mode, region_growing_mode, angle_tolerance,
                   last, pre, run, start, out, split>>

\* export_selection_groups on the cube with that group
CubeExport ==
    /\ rg.pc = "picked"
    /\ \E only_selected \in BOOLEAN, fault \in Faults :
        /\ out' = export_selection_groups(rg.mesh, selection_groups, only_selected, fault)
        /\ last' = [op |-> "export", arg |-> IF only_selected THEN 1 ELSE 0,
                    err |-> "none"]
    /\ rg' = [rg EXCEPT !.pc = "exported"]
    /\ UNCHANGED <<shown, selection_groups, current_group, selection_mode,
                   region_growing_mode, angle_tolerance, pre, run, start, split>>

NextCube == RGWhileStep \/ RGReturn \/ CubePick \/ CubeExport

SpecCube == InitCube /\ [][NextCube]_vars

\* the two triangles of the cube's top side
TopFaces == {0, 1}

\* C25: on the unit cube, region growing from a top triangle with a
\* tolerance of 1 degree selects exactly the two top triangles although
\* side triangles share vertices with them, and a successful export of
\* that selection as the only group, selected faces only, writes exactly
\* one solid, named "Group 1", of exactly 2 facets.
C25_UnitCubeScenario ==
    (rg.pc \in {"return", "picked", "exported"} /\ rg.seed \in TopFaces /\ rg.tol = 1) =>
        /\ rg.selected_faces = TopFaces
        /\ \E f \in Cells(rg.mesh) \ TopFaces : f \in cell_neighbors(rg.mesh)[rg.seed]
        /\ (rg.pc = "exported" /\ last.arg = 1 /\ out.ok) =>
              LET text == FileText(rg.mesh, out.solids)
              IN /\ IsBlocks(text, 1, <<2>>)
                 /\ text[1].name = "Group 1"


\* the positions of the empty groups
EmptyGroups == {i \in 1..Len(selection_groups) : selection_groups[i] = {}}

\* C26: after any sequence of create_new_group, next_group, single and
\* region picks and clear_selection the group list never holds more than
\* one empty group.
C26_AtMostOneEmptyGroup ==
    Cardinality(EmptyGroups) <= 1


\* the faces of a written solid, as a set
FacesOf(solid) == {solid.faces[k] : k \in 1..Len(solid.faces)}

\* how many solids of the file hold face f
TimesWritten(f) == Cardinality({k \in 1..Len(out.solids) : f \in FacesOf(out.solids[k])})

\* how many groups face f belongs to
Membership(f) == Cardinality({i \in 1..Len(selection_groups) : f \in selection_groups[i]})

RECURSIVE FacetTotal(_)
FacetTotal(solids) ==
    IF solids = <<>> THEN 0 ELSE Len(Head(solids).faces) + FacetTotal(Tail(solids))

PairwiseDisjoint ==
    \A i, j \in 1..Len(selection_groups) :
        i # j => selection_groups[i] \cap selection_groups[j] = {}

\* C28: in a successful export of the full mesh every face is written in
\* at least one solid, Body shares no face with a group solid, a face of m
\* groups is written m times, and the number of facets written equals the
\* number of faces of the mesh exactly when the groups are pairwise
\* disjoint.
C28_FullExportFacetCounts ==
    (IsExport /\ out.ok /\ last.arg = 0) =>
        /\ \A f \in Cells(ViewMesh) :
              /\ TimesWritten(f) >= 1
              /\ Membership(f) >= 1 => TimesWritten(f) = Membership(f)
        /\ \A k, l \in 1..Len(out.solids) :
              (out.solids[k].name = "Body" /\ out.solids[l].name # "Body")
                  => FacesOf(out.solids[k]) \cap FacesOf(out.solids[l]) = {}
        /\ FacetTotal(out.solids) = ViewMesh.n_cells <=> PairwiseDisjoint


\* the last handler was a pick event, of either picker
IsPick == last.op \in {"cell_picked", "cell_picked_mesh"}

\* C29: a pick delivered in movement mode (selection_mode off) is ignored:
\* no group is created, every group's members and the active index stay
\* as they were, and nothing is raised; a pick changes the selection state
\* only while selection mode is on.
C29_PickIgnoredInMovementMode ==
    /\ (IsPick /\ ~selection_mode) =>
          /\ selection_groups = pre.g
          /\ current_group = pre.c
          /\ last.err = "none"
    /\ (IsPick /\ Sel # pre) => selection_mode

\* in movement mode, a face of the mesh that is not in the active group was
\* picked while another face is selected
C29_Witness ==
    /\ last.op = "cell_picked" /\ ~selection_mode
    /\ last.arg \in Cells(ViewMesh)
    /\ selection_groups[current_group + 1] # {}
    /\ last.arg \notin selection_groups[current_group + 1]


\* C30: region growing is monotone in the tolerance: the set returned for
\* a tolerance is contained in the set returned, for the same mesh and
\* seed, for every larger tolerance, and every returned set lies within
\* the seed's connected component under vertex adjacency.
C30_MonotoneInTolerance ==
    rg.pc = "return" =>
        /\ \A tol2 \in Tolerances :
              rg.tol <= tol2 =>
                  rg.selected_faces \subseteq
                      select_faces_by_region_growing(rg.mesh, rg.seed, tol2)
        /\ rg.selected_faces \subseteq Component(rg.mesh, {rg.seed})

\* the sets returned for 0, 90 and 180 degrees grow strictly
C30_Witness ==
    /\ rg.pc = "return" /\ rg.tol = 0
    /\ rg.selected_faces # select_faces_by_region_growing(rg.mesh, rg.seed, 90)
    /\ select_faces_by_region_growing(rg.mesh, rg.seed, 90)
          # select_faces_by_region_growing(rg.mesh, rg.seed, 180)

====
